---- MODULE Spec2Model ----
(***************************************************************************)
(* Model of the MLP-Mixer notebook (src/MLPMixer.ipynb).                   *)
(*                                                                         *)
(* Tensors are 3-axis arrays, written as sequences of sequences of         *)
(* sequences of integers.  A float value v is represented by the integer   *)
(* v * Q (fixed point, thousandths); products are rescaled by \div Q.      *)
(*                                                                         *)
(* Name resolution.  MixerLayer.__init__ refers to nn.LinearNorm and to    *)
(* MLPBlock, neither of which exists (torch has nn.LayerNorm, the notebook *)
(* defines MLPblock).  As written the constructor raises before any        *)
(* forward call can happen.  The model reads the two names as              *)
(* nn.LayerNorm and MLPblock, so that the body of forward can be examined. *)
(*                                                                         *)
(* The class MLP_Mixer stops after the first line of its __init__          *)
(* signature; patch embedding, pooling and the classifier have no code in  *)
(* the notebook.  Their definitions below follow the written specification *)
(* and are marked as such.                                                 *)
(***************************************************************************)
EXTENDS Integers, Sequences, FiniteSets, TLC

\* ---------------------------------------------------------------- bounds
MaxBatch == 1
MaxDim == 2
MaxHidden == 2
NumSeeds == 3
NumPatterns == 2
MaxImage == 4
MaxChannels == 1
MaxBlocks == 2
MaxClasses == 2

\* ------------------------------------------------------ number representation
Q == 1000
LN_EPS == 10

Batches == 1..MaxBatch
Dims == 1..MaxDim
\* hidden widths: the narrowest and the widest
Hiddens == {1, MaxHidden}
\* row counts of the inputs of an MLPblock: the fewest and the most
Rows == {1, MaxDim}
RngStates == 0..(NumSeeds - 1)
Patterns == 1..NumPatterns
ImageSides == 1..MaxImage
Channels == 1..MaxChannels

\* ------------------------------------------------------------ tensor algebra
Shape(t) == <<Len(t), Len(t[1]), Len(t[1][1])>>

Ok(t) == [err |-> "", t |-> t]
Fail(e) == [err |-> e, t |-> <<>>]

RECURSIVE DotFrom(_, _, _)
DotFrom(w, v, k) ==
    IF k > Len(w) THEN 0 ELSE w[k] * v[k] + DotFrom(w, v, k + 1)

RECURSIVE SumFrom(_, _)
SumFrom(v, k) == IF k > Len(v) THEN 0 ELSE v[k] + SumFrom(v, k + 1)

RECURSIVE SqrtIter(_, _)
SqrtIter(v, r) ==
    LET r2 == (r + (v \div r)) \div 2
    IN  IF r2 >= r THEN r ELSE SqrtIter(v, r2)

ISqrt(v) == IF v <= 0 THEN 0 ELSE SqrtIter(v, v)

\* x.transpose(1, 2)
Transpose12(t) ==
    [n \in 1..Len(t) |->
        [j \in 1..Len(t[1][1]) |->
            [i \in 1..Len(t[1]) |-> t[n][i][j]]]]

\* a + b on tensors of equal shape
Add(a, b) ==
    [n \in 1..Len(a) |->
        [i \in 1..Len(a[1]) |->
            [j \in 1..Len(a[1][1]) |-> a[n][i][j] + b[n][i][j]]]]

Sub(a, b) ==
    [n \in 1..Len(a) |->
        [i \in 1..Len(a[1]) |->
            [j \in 1..Len(a[1][1]) |-> a[n][i][j] - b[n][i][j]]]]

Zeros(shape) ==
    [n \in 1..shape[1] |-> [i \in 1..shape[2] |-> [j \in 1..shape[3] |-> 0]]]

\* ------------------------------------------------------ random initialisation
\* torch's global generator: every parameter tensor that is initialised
\* consumes the generator and advances it.
NextRng(r) == (r + 1) % NumSeeds

Draw(r, k) == (((((r + 1) * (k + 1)) + k) % 5) - 2) * (Q \div 4)

\* ------------------------------------------------------------------ nn.Linear
Linear(in_features, out_features, r) ==
    [kind |-> "Linear",
     in_features |-> in_features,
     out_features |-> out_features,
     weight |-> [o \in 1..out_features |->
                    [j \in 1..in_features |-> Draw(r, o * in_features + j)]],
     bias |-> [o \in 1..out_features |-> Draw(NextRng(r), o)]]

Linear_forward(self, x) ==
    IF Len(x[1][1]) # self.in_features
    THEN Fail("ShapeError")
    ELSE Ok([n \in 1..Len(x) |->
                [i \in 1..Len(x[1]) |->
                    [o \in 1..self.out_features |->
                        (DotFrom(self.weight[o], x[n][i], 1) \div Q)
                            + self.bias[o]]]])

\* -------------------------------------------------------------------- nn.GELU
\* x * Phi(x), tabulated at the integers -4..4 and interpolated linearly.
GeluKnots == <<0, -4, -45, -159, 0, 841, 1955, 2996, 4000>>

GeluScalar(v) ==
    IF v <= -4 * Q THEN 0
    ELSE IF v >= 4 * Q THEN v
    ELSE LET k == (v + 4 * Q) \div Q
             f == (v + 4 * Q) % Q
         IN  GeluKnots[k + 1]
                + (((GeluKnots[k + 2] - GeluKnots[k + 1]) * f) \div Q)

GELU == [kind |-> "GELU"]

GELU_forward(self, x) ==
    Ok([n \in 1..Len(x) |->
          [i \in 1..Len(x[1]) |->
              [j \in 1..Len(x[1][1]) |-> GeluScalar(x[n][i][j])]]])

\* --------------------------------------------------------------- nn.LayerNorm
LayerNorm(normalized_shape) ==
    [kind |-> "LayerNorm",
     normalized_shape |-> normalized_shape,
     weight |-> [j \in 1..normalized_shape |-> Q],
     bias |-> [j \in 1..normalized_shape |-> 0]]

NormRow(self, row) ==
    LET n == Len(row)
        mean == SumFrom(row, 1) \div n
        dev == [j \in 1..n |-> row[j] - mean]
        var == DotFrom(dev, dev, 1) \div n
        std == ISqrt(var + LN_EPS)
    IN  [j \in 1..n |->
            ((((dev[j] * Q) \div std) * self.weight[j]) \div Q) + self.bias[j]]

LayerNorm_forward(self, x) ==
    IF Len(x[1][1]) # self.normalized_shape
    THEN Fail("ShapeError")
    ELSE Ok([n \in 1..Len(x) |->
                [i \in 1..Len(x[1]) |-> NormRow(self, x[n][i])]])

\* -------------------------------------------------------------- nn.Sequential
Module_forward(m, x) ==
    IF m.kind = "Linear" THEN Linear_forward(m, x)
    ELSE IF m.kind = "GELU" THEN GELU_forward(m, x)
    ELSE LayerNorm_forward(m, x)

\* the values after each module of the sequence, the input first
RECURSIVE Sequential_trace(_, _, _)
Sequential_trace(mods, k, acc) ==
    IF k > Len(mods) THEN acc
    ELSE LET cur == acc[Len(acc)]
         IN  IF cur.err # "" THEN acc
             ELSE Sequential_trace(mods, k + 1,
                                   Append(acc, Module_forward(mods[k], cur.t)))

Sequential_forward(mods, x) ==
    LET tr == Sequential_trace(mods, 1, <<Ok(x)>>)
    IN  tr[Len(tr)]

\* ------------------------------------------------------------------- MLPblock
\* variant: the second projection does not return to dim_hidden
MLPblock_noRestore(dim_hidden, mlp_out, r) ==
    [kind |-> "MLPblock",
     mlp |-> <<Linear(dim_hidden, mlp_out, r),
               GELU,
               Linear(mlp_out, mlp_out, NextRng(NextRng(r)))>>]

MLPblock(dim_hidden, mlp_out, r) ==
    [kind |-> "MLPblock",
     mlp |-> <<Linear(dim_hidden, mlp_out, r),
               GELU,
               Linear(mlp_out, dim_hidden, NextRng(NextRng(r)))>>]

MLPblock_forward(self, x) == Sequential_forward(self.mlp, x)

\* rng after MLPblock.__init__: four parameter tensors were initialised
RngAfterMLPblock(r) == NextRng(NextRng(NextRng(NextRng(r))))

\* ----------------------------------------------------------------- MixerLayer
\* nn.LinearNorm is read as nn.LayerNorm and MLPBlock as MLPblock.
\* patches_num is accepted and never used.
MixerLayer(patches_num, dim_hidden, dim_tokens, dim_channels, r) ==
    [kind |-> "MixerLayer",
     token_ln |-> LayerNorm(dim_hidden),
     token_mix |-> MLPblock(dim_hidden, dim_tokens, r),
     channel_ln |-> LayerNorm(dim_hidden),
     channel_mix |-> MLPblock(dim_hidden, dim_channels, RngAfterMLPblock(r))]

RngAfterMixerLayer(r) == RngAfterMLPblock(RngAfterMLPblock(r))

\* the value of out after the second transpose
MixerLayer_token_branch(self, x) ==
    LET a == LayerNorm_forward(self.token_ln, x)
    IN  IF a.err # "" THEN a
        ELSE LET b == MLPblock_forward(self.token_mix, Transpose12(a.t))
             IN  IF b.err # "" THEN b ELSE Ok(Transpose12(b.t))

\* channel_mix(channel_ln(y))
MixerLayer_channel_branch(self, y) ==
    LET a == LayerNorm_forward(self.channel_ln, y)
    IN  IF a.err # "" THEN a ELSE MLPblock_forward(self.channel_mix, a.t)

\* the rest of forward, given the input x and the token-mixing result out
MixerLayer_tail(self, x, out) ==
    IF Shape(x) # Shape(out) THEN Fail("ShapeError")
    ELSE LET c == MixerLayer_channel_branch(self, Add(x, out))
         IN  IF c.err # "" THEN c ELSE Ok(Add(x, c.t))

MixerLayer_forward(self, x) ==
    LET t == MixerLayer_token_branch(self, x)
    IN  IF t.err # "" THEN t ELSE MixerLayer_tail(self, x, t.t)

\* ------------------------------------------------------------ patch embedding
\* variant: the patch area is taken as P instead of P^2
NumPatches_linear(H, W, P) == (H * W) \div P

\* the notebook's S = HW / P^2
NumPatches(H, W, P) == (H * W) \div (P * P)

Shape4(x) == <<Len(x), Len(x[1]), Len(x[1][1]), Len(x[1][1][1])>>

\* (batch, channels, H, W) -> (batch, S, C) for patch size P and width C
PatchEmbedding_out_shape(shape, P, C) ==
    <<shape[1], (shape[3] \div P) * (shape[4] \div P), C>>

\* variant: only the height is checked against the patch size
PatchEmbedding_heightOnly(patch_size, hidden_dim, in_channels, H, W, r) ==
    IF H % patch_size # 0
    THEN [kind |-> "ConfigurationError"]
    ELSE [kind |-> "PatchEmbedding",
          patch_size |-> patch_size,
          image_shape |-> <<in_channels, H, W>>,
          proj |-> Linear(in_channels * patch_size * patch_size, hidden_dim, r)]

PatchEmbedding(patch_size, hidden_dim, in_channels, H, W, r) ==
    IF H % patch_size # 0 \/ W % patch_size # 0
    THEN [kind |-> "ConfigurationError"]
    ELSE [kind |-> "PatchEmbedding",
          patch_size |-> patch_size,
          image_shape |-> <<in_channels, H, W>>,
          proj |-> Linear(in_channels * patch_size * patch_size, hidden_dim, r)]

\* the pixels of patch s of sample n, flattened across channels
FlatPatch(x, n, s, P) ==
    LET gw == Len(x[1][1][1]) \div P
        top == ((s - 1) \div gw) * P
        left == ((s - 1) % gw) * P
    IN  [q \in 1..(Len(x[1]) * P * P) |->
            x[n][((q - 1) \div (P * P)) + 1]
                [top + (((q - 1) % (P * P)) \div P) + 1]
                [left + ((q - 1) % P) + 1]]

PatchEmbedding_forward(self, x) ==
    IF <<Len(x[1]), Len(x[1][1]), Len(x[1][1][1])>> # self.image_shape
    THEN Fail("ShapeError")
    ELSE LET P == self.patch_size
             S == PatchEmbedding_out_shape(Shape4(x), P,
                                           self.proj.out_features)[2]
         IN  Linear_forward(self.proj,
                 [n \in 1..Len(x) |-> [s \in 1..S |-> FlatPatch(x, n, s, P)]])

\* ------------------------------------------------------------------ MLP_Mixer
RECURSIVE RngAfterLayers(_, _)
RngAfterLayers(r, n) ==
    IF n = 0 THEN r ELSE RngAfterLayers(RngAfterMixerLayer(r), n - 1)

MLP_Mixer(num_classes, num_blocks, size_patch, hidden_dim, token_hidden, channel_hidden, in_channels, H, W, r) ==
    LET pe == PatchEmbedding(size_patch, hidden_dim, in_channels, H, W, r)
        r1 == NextRng(NextRng(r))
    IN  IF pe.kind = "ConfigurationError" THEN pe
        ELSE [kind |-> "MLP_Mixer",
              patch_embed |-> pe,
              layers |-> [b \in 1..num_blocks |->
                            MixerLayer(NumPatches(H, W, size_patch), hidden_dim,
                                       token_hidden, channel_hidden,
                                       RngAfterLayers(r1, b - 1))],
              classifier |-> Linear(hidden_dim, num_classes,
                                    RngAfterLayers(r1, num_blocks))]

RngAfterMLP_Mixer(r, num_blocks) ==
    NextRng(NextRng(RngAfterLayers(NextRng(NextRng(r)), num_blocks)))

\* mean over the token axis: (batch, S, C) -> (batch, C)
GlobalAvgPool(x) ==
    [n \in 1..Len(x) |->
        [j \in 1..Len(x[1][1]) |->
            SumFrom([i \in 1..Len(x[1]) |-> x[n][i][j]], 1) \div Len(x[1])]]

\* the classifier on a (batch, C) value
Classifier_forward(self, pooled) ==
    LET o == Linear_forward(self, <<pooled>>)
    IN  IF o.err # "" THEN o ELSE Ok(o.t[1])

\* variant: the Mixer Layers run last to first
Stages_reversed(num_blocks) ==
    <<<<"patch_embedding", 0>>>>
        \o [b \in 1..num_blocks |-> <<"mixer_layer", num_blocks + 1 - b>>]
        \o <<<<"pooling", 0>>, <<"classifier", 0>>>>

\* the stages of a forward call, in the order they run
Stages(num_blocks) ==
    <<<<"patch_embedding", 0>>>>
        \o [b \in 1..num_blocks |-> <<"mixer_layer", b>>]
        \o <<<<"pooling", 0>>, <<"classifier", 0>>>>

\* the value after one stage of a call, given the value before it
Stage_forward(self, stage, v) ==
    IF stage[1] = "patch_embedding"
    THEN PatchEmbedding_forward(self.patch_embed, v)
    ELSE IF stage[1] = "mixer_layer"
    THEN MixerLayer_forward(self.layers[stage[2]], v)
    ELSE IF stage[1] = "pooling" THEN Ok(GlobalAvgPool(v))
    ELSE Classifier_forward(self.classifier, v)

\* --------------------------------------------------------------------- inputs
Input(shape, p) ==
    [n \in 1..shape[1] |->
        [i \in 1..shape[2] |->
            [j \in 1..shape[3] |-> (((p * (n + 2 * i + 3 * j)) % 5) - 2) * (Q \div 2)]]]

\* callers pass tensors whose shape fits the module they call: any number
\* of rows of width dim_hidden to an MLPblock, (batch, S, C) to a MixerLayer
\* configured for S patches of width C, (batch, channels, H, W) to a network
\* configured for that image shape
MLPblockInputShapes(a) == Batches \X Rows \X {a[1]}
MixerLayerInputShapes(a) == Batches \X {a[1]} \X {a[2]}

Image(shape, p) ==
    [n \in 1..shape[1] |->
        [c \in 1..shape[2] |->
            [y \in 1..shape[3] |->
                [x \in 1..shape[4] |->
                    (((p * (n + c + 2 * y + 3 * x)) % 5) - 2) * (Q \div 2)]]]]

ImageShapes(a) == Batches \X {a.in_channels} \X {a.H} \X {a.W}

\* ---------------------------------------------------------------------- state
\* A session constructs one module, an MLPblock or a MixerLayer, and then
\* calls it any number of times.
VARIABLES
    rng,     \* state of torch's global random generator
    module,  \* the constructed module, None before construction
    args,    \* the arguments the module was constructed with
    last,    \* the most recent forward call: module, input, result
    ref,     \* some earlier forward call, kept for comparison
    gap,     \* TRUE when other forward calls were made between ref and last
    op,      \* the operation that produced the current state
    net,      \* the MLP_Mixer instance, None before construction
    netArgs,  \* the arguments it was constructed with
    exc,      \* the exception the last network operation raised, "" if none
    status,   \* of the network's forward call: idle, running, returned, raised
    cur,      \* the value the running call has reached
    batch,    \* the batch size of the running call's input
    log       \* the stages the running call has completed, in order

layerVars == <<module, args, last, ref, gap, op>>
netVars == <<net, netArgs, exc, status, cur, batch, log>>
vars == <<rng, module, args, last, ref, gap, op,
          net, netArgs, exc, status, cur, batch, log>>

None == [kind |-> "None"]
NoArgs == [num_classes |-> 0, num_blocks |-> 0, size_patch |-> 0,
           hidden_dim |-> 0, token_hidden |-> 0, channel_hidden |-> 0,
           in_channels |-> 0, H |-> 0, W |-> 0]
NoCall == [self |-> None, x |-> <<>>, out |-> Fail("")]

Init ==
    /\ rng \in RngStates
    /\ module = None
    /\ args = <<>>
    /\ last = NoCall
    /\ ref = NoCall
    /\ gap = FALSE
    /\ op = "init"
    /\ net = None
    /\ netArgs = NoArgs
    /\ exc = ""
    /\ status = "idle"
    /\ cur = <<>>
    /\ batch = 0
    /\ log = <<>>

\* bookkeeping of the calls under comparison: either the call that was the
\* most recent one becomes the reference, or the reference is kept and that
\* call lies between the reference and the new call
Remember ==
    \/ /\ ref' = last
       /\ gap' = FALSE
    \/ /\ ref # NoCall
       /\ ref' = ref
       /\ gap' = TRUE

\* module = MLPblock(dim_hidden, mlp_out)
NewMLPblock ==
    /\ module = None
    /\ \E dim_hidden \in Dims, mlp_out \in Hiddens :
          /\ module' = MLPblock(dim_hidden, mlp_out, rng)
          /\ args' = <<dim_hidden, mlp_out>>
    /\ rng' = RngAfterMLPblock(rng)
    /\ op' = "MLPblock.__init__"
    /\ UNCHANGED <<last, ref, gap, netVars>>

\* module = MixerLayer(patches_num, dim_hidden, dim_tokens, dim_channels)
NewMixerLayer ==
    /\ module = None
    /\ \E patches_num \in Dims, dim_hidden \in Dims,
          dim_tokens \in Hiddens, dim_channels \in Hiddens :
          /\ module' = MixerLayer(patches_num, dim_hidden, dim_tokens,
                                  dim_channels, rng)
          /\ args' = <<patches_num, dim_hidden, dim_tokens, dim_channels>>
    /\ rng' = RngAfterMixerLayer(rng)
    /\ op' = "MixerLayer.__init__"
    /\ UNCHANGED <<last, ref, gap, netVars>>

\* variant: forward builds its layers anew on every call
CallMLPblock_rebuild ==
    /\ module.kind = "MLPblock"
    /\ \E shape \in MLPblockInputShapes(args), p \in Patterns :
          last' = [self |-> module, x |-> Input(shape, p),
                   out |-> MLPblock_forward(module, Input(shape, p))]
    /\ Remember
    /\ op' = "MLPblock.forward"
    /\ module' = MLPblock(args[1], args[2], rng)
    /\ rng' = RngAfterMLPblock(rng)
    /\ UNCHANGED <<args, netVars>>

\* module(x), module an MLPblock
CallMLPblock ==
    /\ module.kind = "MLPblock"
    /\ \E shape \in MLPblockInputShapes(args), p \in Patterns :
          last' = [self |-> module, x |-> Input(shape, p),
                   out |-> MLPblock_forward(module, Input(shape, p))]
    /\ Remember
    /\ op' = "MLPblock.forward"
    /\ UNCHANGED <<rng, module, args, netVars>>

\* variant: forward applies dropout to its input, drawing the mask from the
\* global generator
Dropout(x, r) ==
    [n \in 1..Len(x) |->
        [i \in 1..Len(x[1]) |->
            [j \in 1..Len(x[1][1]) |->
                IF (n + i + j + r) % 2 = 0 THEN 0 ELSE 2 * x[n][i][j]]]]

CallMixerLayer_dropout ==
    /\ module.kind = "MixerLayer"
    /\ \E shape \in MixerLayerInputShapes(args), p \in Patterns :
          last' = [self |-> module, x |-> Input(shape, p),
                   out |-> MixerLayer_forward(module,
                                              Dropout(Input(shape, p), rng))]
    /\ Remember
    /\ op' = "MixerLayer.forward"
    /\ rng' = NextRng(rng)
    /\ UNCHANGED <<module, args, netVars>>

\* module(x), module a MixerLayer
CallMixerLayer ==
    /\ module.kind = "MixerLayer"
    /\ \E shape \in MixerLayerInputShapes(args), p \in Patterns :
          last' = [self |-> module, x |-> Input(shape, p),
                   out |-> MixerLayer_forward(module, Input(shape, p))]
    /\ Remember
    /\ op' = "MixerLayer.forward"
    /\ UNCHANGED <<rng, module, args, netVars>>

Next ==
    \/ NewMLPblock
    \/ NewMixerLayer
    \/ CallMLPblock
    \/ CallMixerLayer

Spec == Init /\ [][Next]_vars

\* ------------------------------------------------------- the network session
\* net = MLP_Mixer(num_classes, num_blocks, size_patch, hidden_dim,
\*                 token_hidden, channel_hidden, image_size)
NewMLP_Mixer ==
    /\ netArgs = NoArgs
    /\ \E num_classes \in 1..MaxClasses, num_blocks \in 1..MaxBlocks,
          size_patch \in ImageSides, hidden_dim \in Dims,
          token_hidden \in Hiddens, channel_hidden \in Hiddens,
          in_channels \in Channels, H \in ImageSides, W \in ImageSides :
          LET m == MLP_Mixer(num_classes, num_blocks, size_patch, hidden_dim,
                             token_hidden, channel_hidden, in_channels, H, W,
                             rng)
          IN  /\ netArgs' = [num_classes |-> num_classes,
                             num_blocks |-> num_blocks,
                             size_patch |-> size_patch,
                             hidden_dim |-> hidden_dim,
                             token_hidden |-> token_hidden,
                             channel_hidden |-> channel_hidden,
                             in_channels |-> in_channels,
                             H |-> H, W |-> W]
              /\ IF m.kind = "ConfigurationError"
                 THEN /\ net' = None
                      /\ exc' = "ConfigurationError"
                      /\ rng' = rng
                 ELSE /\ net' = m
                      /\ exc' = ""
                      /\ rng' = RngAfterMLP_Mixer(rng, num_blocks)
    /\ UNCHANGED <<status, cur, batch, log, layerVars>>

\* net(x) is entered
NetCall ==
    /\ net # None
    /\ status # "running"
    /\ \E shape \in ImageShapes(netArgs), p \in Patterns :
          /\ cur' = Image(shape, p)
          /\ batch' = shape[1]
    /\ status' = "running"
    /\ log' = <<>>
    /\ exc' = ""
    /\ UNCHANGED <<rng, net, netArgs, layerVars>>

\* the running call executes its next stage
NetStage ==
    /\ status = "running"
    /\ Len(log) < Len(Stages(Len(net.layers)))
    /\ LET stage == Stages(Len(net.layers))[Len(log) + 1]
           r == Stage_forward(net, stage, cur)
       IN  IF r.err # ""
           THEN /\ status' = "raised"
                /\ exc' = r.err
                /\ cur' = <<>>
                /\ log' = log
           ELSE /\ status' = status
                /\ exc' = exc
                /\ cur' = r.t
                /\ log' = Append(log, stage)
    /\ UNCHANGED <<rng, net, netArgs, batch, layerVars>>

\* the running call returns the value it has reached
NetReturn ==
    /\ status = "running"
    /\ Len(log) = Len(Stages(Len(net.layers)))
    /\ status' = "returned"
    /\ UNCHANGED <<rng, net, netArgs, exc, cur, batch, log, layerVars>>

NextNet ==
    \/ NewMLP_Mixer
    \/ NetCall
    \/ NetStage
    \/ NetReturn

\* the network session starts from a seeded generator
InitNet == Init /\ rng = 0

SpecNet == InitNet /\ [][NextNet]_vars

TypeOK ==
    /\ rng \in RngStates
    /\ module.kind \in {"None", "MLPblock", "MixerLayer"}
    /\ net.kind \in {"None", "MLP_Mixer"}
    /\ status \in {"idle", "running", "returned", "raised"}
    /\ exc \in {"", "ConfigurationError", "ShapeError"}
    /\ gap \in BOOLEAN

\* ------------------------------------------------------------------ claims
IsLayerCall(c) == c.self.kind = "MixerLayer"
IsMLPCall(c) == c.self.kind = "MLPblock"
Succeeded(c) == c.out.err = ""

\* the input of a MixerLayer call has the shape (batch, S, C) of the
\* layer's configuration
ConfiguredShape(c) ==
    /\ IsLayerCall(c)
    /\ Shape(c.x)[2] = args[1]
    /\ Shape(c.x)[3] = args[2]

ForwardOps == {"MLPblock.forward", "MixerLayer.forward"}

\* C3: an MLPblock built with (dim_in, hidden) is Linear dim_in->hidden,
\* GELU, Linear hidden->dim_in in that order; on an input whose last axis
\* has size dim_in the intermediate values have last axis hidden and the
\* result has the shape of the input.
C3_MLPblockPreservesShape ==
    /\ module.kind = "MLPblock" =>
          /\ Len(module.mlp) = 3
          /\ module.mlp[1].kind = "Linear"
          /\ module.mlp[1].in_features = args[1]
          /\ module.mlp[1].out_features = args[2]
          /\ module.mlp[2].kind = "GELU"
          /\ module.mlp[3].kind = "Linear"
          /\ module.mlp[3].in_features = args[2]
          /\ module.mlp[3].out_features = args[1]
    /\ (IsMLPCall(last) /\ Shape(last.x)[3] = args[1]) =>
          LET tr == Sequential_trace(last.self.mlp, 1, <<Ok(last.x)>>)
              hid == <<Shape(last.x)[1], Shape(last.x)[2], args[2]>>
          IN  /\ Len(tr) = 4
              /\ \A k \in 1..4 : tr[k].err = ""
              /\ Shape(tr[2].t) = hid
              /\ Shape(tr[3].t) = hid
              /\ tr[2] = Linear_forward(last.self.mlp[1], last.x)
              /\ tr[3] = GELU_forward(GELU, tr[2].t)
              /\ tr[4] = Linear_forward(last.self.mlp[3], tr[3].t)
              /\ last.out = tr[4]
              /\ Shape(last.out.t) = Shape(last.x)

C3_Witness ==
    /\ IsMLPCall(last)
    /\ Succeeded(last)
    /\ Shape(last.x)[3] = args[1]
    /\ args[1] # args[2]
    /\ Shape(last.x)[2] # args[1]
    /\ Shape(last.out.t) = Shape(last.x)

C8_ForwardReadOnly ==
    [][(op' \in ForwardOps) => (module' = module /\ last'.self = module)]_vars

C8_Witness ==
    /\ op \in ForwardOps
    /\ gap
    /\ IsLayerCall(last)
    /\ Succeeded(last)
    /\ ref.self = module
    /\ last.self = module

\* C1: MixerLayer.forward returns x1 + channel_mix(normalize(x1)) with
\* x1 = x + token_out_restored: the second residual addition uses x1, not x.
C1_SecondResidualUsesX1 ==
    (IsLayerCall(last) /\ Succeeded(last)) =>
        LET t == MixerLayer_token_branch(last.self, last.x).t
            x1 == Add(last.x, t)
            c == MixerLayer_channel_branch(last.self, x1)
        IN  last.out = Ok(Add(x1, c.t))

\* C2: for every configuration (S, C, token_hidden, channel_hidden) and
\* input of shape (batch, S, C), MixerLayer.forward completes without a
\* shape error and the output has the shape of the input.
C2_LayerPreservesShape ==
    ConfiguredShape(last) =>
        /\ last.out.err = ""
        /\ Shape(last.out.t) = Shape(last.x)

\* C9: the token-mixing block of a MixerLayer is built with dim_in = S and
\* hidden = token_hidden, so the transposed tensor (batch, C, S) handed to
\* it has a last axis equal to the block's dim_in and its result has shape
\* (batch, C, S).
C9_TokenMixBuiltOnPatches ==
    /\ module.kind = "MixerLayer" =>
          /\ module.token_mix.mlp[1].in_features = args[1]
          /\ module.token_mix.mlp[1].out_features = args[3]
          /\ module.token_mix.mlp[3].out_features = args[1]
    /\ ConfiguredShape(last) =>
          LET a == LayerNorm_forward(last.self.token_ln, last.x)
              tr == Transpose12(a.t)
              b == MLPblock_forward(last.self.token_mix, tr)
          IN  /\ a.err = ""
              /\ Shape(tr)[3] = last.self.token_mix.mlp[1].in_features
              /\ b.err = ""
              /\ Shape(b.t) = <<Shape(last.x)[1], args[2], args[1]>>

\* the token-mixing results a second run is compared with
AltTokenOut(shape) == {Zeros(shape)} \cup {Input(shape, p) : p \in Patterns}

\* C10: for a fixed input x and fixed channel-mixing parameters, two runs
\* that differ only in the token-mixing result t give outputs that differ
\* by the difference in x + t plus the difference in
\* channel_mix(normalize(x + t)).
C10_OutputFollowsTokenOut ==
    (IsLayerCall(last) /\ Succeeded(last)) =>
        \A t2 \in AltTokenOut(Shape(last.x)) :
            LET x == last.x
                t1 == MixerLayer_token_branch(last.self, x).t
                o1 == MixerLayer_tail(last.self, x, t1)
                o2 == MixerLayer_tail(last.self, x, t2)
                c1 == MixerLayer_channel_branch(last.self, Add(x, t1))
                c2 == MixerLayer_channel_branch(last.self, Add(x, t2))
            IN  (o1.err = "" /\ o2.err = "") =>
                    Sub(o1.t, o2.t) =
                        Add(Sub(Add(x, t1), Add(x, t2)), Sub(c1.t, c2.t))

\* the patch size of the network's configuration does not divide the image
NonDividing ==
    /\ netArgs # NoArgs
    /\ \/ netArgs.H % netArgs.size_patch # 0
       \/ netArgs.W % netArgs.size_patch # 0

\* the running call has just completed patch embedding
Embedded == status = "running" /\ Len(log) = 1

C5_NonDividingPatchRejected ==
    NonDividing =>
        /\ net = None
        /\ exc = "ConfigurationError"
        /\ status = "idle"
        /\ cur = <<>>

C5_Witness ==
    /\ NonDividing
    /\ netArgs.H % netArgs.size_patch = 0
    /\ exc = "ConfigurationError"

\* the stage that stands at position k of a call on a network of n layers
ExpectedStage(k, n) ==
    IF k = 1 THEN <<"patch_embedding", 0>>
    ELSE IF k <= n + 1 THEN <<"mixer_layer", k - 1>>
    ELSE IF k = n + 2 THEN <<"pooling", 0>>
    ELSE <<"classifier", 0>>

\* C6: a forward call of the network runs patch embedding, Mixer Layer 1
\* to num_blocks each once and in sequence, pooling over the token axis and
\* the classifier, in that order, and a call that returns ends with logits
\* of shape (batch, num_classes).
C6_StagesInOrder ==
    status # "idle" =>
        LET n == netArgs.num_blocks
        IN  /\ Len(log) <= n + 3
            /\ \A k \in 1..Len(log) : log[k] = ExpectedStage(k, n)
            /\ (status = "running" /\ Len(log) \in 1..(n + 1)) =>
                  Shape(cur) = <<batch, NumPatches(netArgs.H, netArgs.W,
                                                   netArgs.size_patch),
                                 netArgs.hidden_dim>>
            /\ (status = "running" /\ Len(log) = n + 2) =>
                  /\ Len(cur) = batch
                  /\ \A i \in 1..batch : Len(cur[i]) = netArgs.hidden_dim
            /\ status = "returned" =>
                  /\ Len(log) = n + 3
                  /\ Len(cur) = batch
                  /\ \A i \in 1..batch : Len(cur[i]) = netArgs.num_classes

C6_Witness ==
    /\ status = "returned"
    /\ netArgs.num_blocks > 1
    /\ netArgs.hidden_dim > 1
    /\ netArgs.num_classes # netArgs.hidden_dim
    /\ Len(log) = netArgs.num_blocks + 3
    /\ Len(cur[1]) = netArgs.num_classes

====
